---- MODULE Spec2Model ----
(***************************************************************************)
(* The per-allele training loop of                                         *)
(* script/mhcflurry-train-class1-allele-specific-models.py: for every      *)
(* allele of the list it looks up the data, normalizes the name, decides   *)
(* skip or train, removes old artifact files, fits a model and writes      *)
(* <name>.json and <name>.hdf into the output directory.                   *)
(***************************************************************************)
EXTENDS Integers, Sequences, FiniteSets

VARIABLES
    files,                   \* output directory: normalized name -> [json, hdf]
    overwrite,               \* args.overwrite
    min_samples_per_allele,  \* args.min_samples_per_allele
    imputation_method,       \* args.imputation_method
    imputed_data_dict,       \* keys of the imputation result
    alleles,                 \* the list the loop iterates
    i,                       \* position of the loop in alleles (1-based)
    pc,                      \* position inside the loop body
    pretrain,                \* X_pretrain, Y_pretrain, weights_pretrain
    rerun,                   \* FALSE in the first invocation, TRUE in the second
    log,                     \* history: what this invocation did, in order
    atReach,                 \* history: files when the current allele was reached
    files0,                  \* history: files when the first invocation started
    first,                   \* history: result of the first invocation
    failedAt                 \* history: position at which an exception escaped

vars == <<files, overwrite, min_samples_per_allele, imputation_method,
          imputed_data_dict, alleles, i, pc, pretrain, rerun, log, atReach,
          files0, first, failedAt>>

args == <<overwrite, min_samples_per_allele, imputation_method,
          imputed_data_dict>>

-----------------------------------------------------------------------------
(* Bounds and inputs *)

\* longest --alleles list enumerated
MaxAlleles == 2

\* keys of allele_data_dict: one name already normalized, one raw spelling of
\* the same allele, a second allele, and a key that normalizes to digits
Keys == {"A0201", "A*02:01", "B0702", "12"}

\* sorted(allele_data_dict.keys()): "1" < "A", and "*" < "0" in "A*.." < "A0.."
SortedKeys == <<"12", "A*02:01", "A0201", "B0702">>

\* len(allele_data_dict[k].Y)
n_samples(k) ==
    CASE k = "A0201" -> 10
      [] k = "A*02:01" -> 5
      [] k = "B0702" -> 3
      [] OTHER -> 10

\* values of --min-samples-per-allele enumerated (5 is the default)
Thresholds == {3, 5, 11}

\* values of --imputation-method enumerated ("None" is the default)
Methods == {"None", "mice"}

\* key sets create_imputed_datasets may return
ImputedKeySets == {{}, {"A*02:01", "B0702"}}

-----------------------------------------------------------------------------
(* Collaborators *)

\* mhcflurry.common.normalize_allele_name
normalize_allele_name(a) == IF a = "A*02:01" THEN "A0201" ELSE a

Names == {normalize_allele_name(k) : k \in Keys}

\* what --alleles can hold: normalized names that are keys of the data
UserAlleles == {k \in Keys : \E s \in Keys : normalize_allele_name(s) = k}

\* a file of the output directory: data is the key whose model it holds
\* ("stale" for a file from before the first invocation), run the invocation
\* that wrote it
Absent == [data |-> "absent", run |-> 0]
Stale == [data |-> "stale", run |-> 0]

None == [of |-> "None", field |-> "None"]
NoPretrain ==
    [X_pretrain |-> None, Y_pretrain |-> None,
     sample_weights_pretrain |-> None]

RunNo == IF rerun THEN 2 ELSE 1

\* os.path.exists
exists(fs, name, ext) == fs[name][ext] # Absent

\* os.remove
remove(fs, name, ext) == [fs EXCEPT ![name][ext] = Absent]

-----------------------------------------------------------------------------
(* The loop *)

allele_name == normalize_allele_name(alleles[i])

\* str.isdigit on the names the data holds
IsDigit(name) == name = "12"

NumericName_Dropped == FALSE

\* if allele_name.isdigit():
NumericName == IsDigit(allele_name)

BothExistNoOverwrite_NegationForgotten ==
    /\ exists(files, allele_name, "json")
    /\ exists(files, allele_name, "hdf")
    /\ overwrite

BothExistNoOverwrite_Dropped == FALSE

\* if exists(json_path) and exists(hdf_path) and not args.overwrite:
BothExistNoOverwrite ==
    /\ exists(files, allele_name, "json")
    /\ exists(files, allele_name, "hdf")
    /\ ~overwrite

TooFewSamples_OffByOne == n_samples(alleles[i]) <= min_samples_per_allele

TooFewSamples_Dropped == FALSE

\* if n_allele < args.min_samples_per_allele:
TooFewSamples == n_samples(alleles[i]) < min_samples_per_allele

PretrainInputs_ByNormalizedName(k) ==
    IF normalize_allele_name(k) \in imputed_data_dict
    THEN [X_pretrain |-> [of |-> normalize_allele_name(k), field |-> "X_index"],
          Y_pretrain |-> [of |-> normalize_allele_name(k), field |-> "Y"],
          sample_weights_pretrain |->
              [of |-> normalize_allele_name(k), field |-> "weights"]]
    ELSE NoPretrain

PretrainInputs(k) ==
    IF k \in imputed_data_dict
    THEN [X_pretrain |-> [of |-> k, field |-> "X_index"],
          Y_pretrain |-> [of |-> k, field |-> "Y"],
          sample_weights_pretrain |-> [of |-> k, field |-> "weights"]]
    ELSE NoPretrain

Had(name) ==
    [json |-> exists(atReach, name, "json"),
     hdf |-> exists(atReach, name, "hdf")]

Event(op) ==
    [op |-> op, i |-> i, key |-> alleles[i], had |-> Had(allele_name),
     pre |-> pretrain]

Continue == /\ i' = i + 1
            /\ pc' = "for"

Frame == UNCHANGED <<args, alleles, rerun, files0, first>>

\* for allele_name in alleles: look up the data and the pre-training inputs
NextAllele ==
    /\ pc = "for"
    /\ i <= Len(alleles)
    /\ pretrain' = PretrainInputs(alleles[i])
    /\ atReach' = files
    /\ pc' = "normalize"
    /\ UNCHANGED <<files, i, log, failedAt>>
    /\ Frame

LoopExit ==
    /\ pc = "for"
    /\ i > Len(alleles)
    /\ pc' = "done"
    /\ UNCHANGED <<files, i, pretrain, log, atReach, failedAt>>
    /\ Frame

SkipNumeric ==
    /\ pc = "normalize"
    /\ NumericName
    /\ log' = Append(log, Event("skip_numeric"))
    /\ Continue
    /\ UNCHANGED <<files, pretrain, atReach, failedAt>>
    /\ Frame

SkipExisting ==
    /\ pc = "normalize"
    /\ ~NumericName
    /\ BothExistNoOverwrite
    /\ log' = Append(log, Event("skip_exists"))
    /\ Continue
    /\ UNCHANGED <<files, pretrain, atReach, failedAt>>
    /\ Frame

SkipTooFew_Breaks ==
    /\ pc = "normalize"
    /\ ~NumericName
    /\ ~BothExistNoOverwrite
    /\ TooFewSamples
    /\ log' = Append(log, Event("skip_few"))
    /\ pc' = "done"
    /\ UNCHANGED <<files, i, pretrain, atReach, failedAt>>
    /\ Frame

SkipTooFew ==
    /\ pc = "normalize"
    /\ ~NumericName
    /\ ~BothExistNoOverwrite
    /\ TooFewSamples
    /\ log' = Append(log, Event("skip_few"))
    /\ Continue
    /\ UNCHANGED <<files, pretrain, atReach, failedAt>>
    /\ Frame

RemoveJson_KeepsFile ==
    /\ pc = "normalize"
    /\ ~NumericName
    /\ ~BothExistNoOverwrite
    /\ ~TooFewSamples
    /\ pc' = "remove_hdf"
    /\ UNCHANGED <<files, log, i, pretrain, atReach, failedAt>>
    /\ Frame

RemoveJson ==
    /\ pc = "normalize"
    /\ ~NumericName
    /\ ~BothExistNoOverwrite
    /\ ~TooFewSamples
    /\ IF exists(files, allele_name, "json")
       THEN /\ files' = remove(files, allele_name, "json")
            /\ log' = Append(log, Event("remove_json"))
       ELSE UNCHANGED <<files, log>>
    /\ pc' = "remove_hdf"
    /\ UNCHANGED <<i, pretrain, atReach, failedAt>>
    /\ Frame

RemoveHdf_KeepsFile ==
    /\ pc = "remove_hdf"
    /\ pc' = "fit"
    /\ UNCHANGED <<files, log, i, pretrain, atReach, failedAt>>
    /\ Frame

RemoveHdf ==
    /\ pc = "remove_hdf"
    /\ IF exists(files, allele_name, "hdf")
       THEN /\ files' = remove(files, allele_name, "hdf")
            /\ log' = Append(log, Event("remove_hdf"))
       ELSE UNCHANGED <<files, log>>
    /\ pc' = "fit"
    /\ UNCHANGED <<i, pretrain, atReach, failedAt>>
    /\ Frame

Fit ==
    /\ pc = "fit"
    /\ log' = Append(log, Event("fit"))
    /\ pc' = "to_disk"
    /\ UNCHANGED <<files, i, pretrain, atReach, failedAt>>
    /\ Frame

FitFails_Continues ==
    /\ pc = "fit"
    /\ log' = Append(log, Event("fit_failed"))
    /\ failedAt' = i
    /\ Continue
    /\ UNCHANGED <<files, pretrain, atReach>>
    /\ Frame

FitFails ==
    /\ pc = "fit"
    /\ log' = Append(log, Event("fit_failed"))
    /\ pc' = "failed"
    /\ failedAt' = i
    /\ UNCHANGED <<files, i, pretrain, atReach>>
    /\ Frame

\* Class1BindingPredictor.to_disk: a file that is there is replaced only if
\* overwrite is set
to_disk(fs, name, ext, key) ==
    IF exists(fs, name, ext) /\ ~overwrite
    THEN fs
    ELSE [fs EXCEPT ![name][ext] = [data |-> key, run |-> RunNo]]

ToDisk ==
    /\ pc = "to_disk"
    /\ files' = to_disk(to_disk(files, allele_name, "json", alleles[i]),
                        allele_name, "hdf", alleles[i])
    /\ log' = Append(log, Event("to_disk"))
    /\ Continue
    /\ UNCHANGED <<pretrain, atReach, failedAt>>
    /\ Frame

\* the exception escapes before anything is written, or after the structure
\* file is written and before the weights file is
ToDiskFails ==
    /\ pc = "to_disk"
    /\ \E wrote_json \in BOOLEAN :
          files' = IF wrote_json
                   THEN to_disk(files, allele_name, "json", alleles[i])
                   ELSE files
    /\ log' = Append(log, Event("to_disk_failed"))
    /\ pc' = "failed"
    /\ failedAt' = i
    /\ UNCHANGED <<i, pretrain, atReach>>
    /\ Frame

Body ==
    \/ NextAllele
    \/ LoopExit
    \/ SkipNumeric
    \/ SkipExisting
    \/ SkipTooFew
    \/ RemoveJson
    \/ RemoveHdf
    \/ Fit
    \/ FitFails
    \/ ToDisk
    \/ ToDiskFails

-----------------------------------------------------------------------------
(* Invocations *)

\* alleles = args.alleles, or sorted(allele_data_dict.keys()) if that is empty
AlleleLists ==
    {SortedKeys} \cup
    UNION {[1..n -> UserAlleles] : n \in 1..MaxAlleles}

Init ==
    /\ files \in [Names -> [json : {Absent, Stale}, hdf : {Absent, Stale}]]
    /\ overwrite \in BOOLEAN
    /\ min_samples_per_allele \in Thresholds
    /\ imputation_method \in Methods
    /\ imputed_data_dict \in
          IF imputation_method = "None" THEN {{}} ELSE ImputedKeySets
    /\ alleles \in AlleleLists
    /\ i = 1
    /\ pc = "for"
    /\ pretrain = NoPretrain
    /\ rerun = FALSE
    /\ log = <<>>
    /\ atReach = files
    /\ files0 = files
    /\ first = [files |-> files, log |-> <<>>]
    /\ failedAt = 0

\* the script is run again with the same arguments on the directory the
\* first invocation left
Rerun ==
    /\ pc = "done"
    /\ ~rerun
    /\ rerun' = TRUE
    /\ first' = [files |-> files, log |-> log]
    /\ i' = 1
    /\ pc' = "for"
    /\ log' = <<>>
    /\ atReach' = files
    /\ pretrain' = NoPretrain
    /\ UNCHANGED <<files, args, alleles, files0, failedAt>>

Orders(n) ==
    {p \in [1..n -> 1..n] : \A a, b \in 1..n : p[a] = p[b] => a = b}

\* the script is run with the same data and options on the directory the
\* first invocation started from, the allele list in another order
RunPermuted ==
    /\ pc = "done"
    /\ ~rerun
    /\ rerun' = TRUE
    /\ first' = [files |-> files, log |-> log]
    /\ \E p \in Orders(Len(alleles)) :
          alleles' = [j \in 1..Len(alleles) |-> alleles[p[j]]]
    /\ files' = files0
    /\ i' = 1
    /\ pc' = "for"
    /\ log' = <<>>
    /\ atReach' = files0
    /\ pretrain' = NoPretrain
    /\ UNCHANGED <<args, files0, failedAt>>

Next == Body \/ Rerun

Spec == Init /\ [][Next]_vars

NextPerm == Body \/ RunPermuted

SpecPerm == Init /\ [][NextPerm]_vars

-----------------------------------------------------------------------------
(* Properties *)

LogSet == {log[j] : j \in 1..Len(log)}

LastEvent == log[Len(log)]

FitOps == {"fit", "fit_failed"}

RemoveOps == {"remove_json", "remove_hdf"}

\* the loop has just finished entry i - 1 without an exception; atReach is
\* still the directory as that entry found it
JustFinished == pc = "for" /\ i > 1

prev == alleles[i - 1]

prev_name == normalize_allele_name(prev)

Eligible ==
    /\ n_samples(prev) >= min_samples_per_allele
    /\ ~(/\ exists(atReach, prev_name, "json")
         /\ exists(atReach, prev_name, "hdf")
         /\ ~overwrite)

HoldsArtifacts ==
    /\ files[prev_name]["json"] = [data |-> prev, run |-> RunNo]
    /\ files[prev_name]["hdf"] = [data |-> prev, run |-> RunNo]

Scenario ==
    /\ alleles = <<"A0201", "B0702">>
    /\ min_samples_per_allele = 5
    /\ \A n \in Names : files0[n] = [json |-> Absent, hdf |-> Absent]
    /\ imputation_method = "None"

ScenarioResult ==
    \A n \in Names : \A ext \in {"json", "hdf"} :
        exists(files, n, ext) <=> n = "A0201"

\* C1 as stated: once the loop has finished an allele with at least
\* min_samples_per_allele samples whose two files did not both exist (or
\* overwrite is set), the directory holds its .json and its .hdf; and in the
\* scenario A (10 samples), B (3 samples), threshold 5, empty directory, no
\* imputation, a completed run leaves artifacts for A only.
C1_AsStated ==
    /\ (JustFinished /\ Eligible) =>
          (exists(files, prev_name, "json") /\ exists(files, prev_name, "hdf"))
    /\ (pc = "done" /\ Scenario) => ScenarioResult

\* C1 amended: the same, for alleles whose normalized name is not purely
\* numeric; the two files are then the ones this invocation wrote from that
\* allele's data.
C1_Artifacts ==
    /\ (JustFinished /\ Eligible /\ ~IsDigit(prev_name)) => HoldsArtifacts
    /\ (pc = "done" /\ Scenario) => ScenarioResult

C1_Witness ==
    /\ pc = "done"
    /\ ~rerun
    /\ Scenario
    /\ \E e \in LogSet : e.op = "to_disk" /\ e.key = "A0201"
    /\ \E e \in LogSet : e.op = "skip_few" /\ e.key = "B0702"

\* C2: while the loop is at an allele with fewer than min_samples_per_allele
\* samples, no step changes any file of the output directory, whatever
\* overwrite is and whichever of its files exist.
C2_NoFileTouched ==
    [][(/\ pc \in {"normalize", "remove_hdf", "fit", "to_disk"}
        /\ n_samples(alleles[i]) < min_samples_per_allele)
       => files' = files]_vars

C2_Witness ==
    /\ overwrite
    /\ \E e \in LogSet :
          /\ e.op = "skip_few"
          /\ e.had.json
          /\ ~e.had.hdf
          /\ n_samples(e.key) < min_samples_per_allele

\* C3: fit is never invoked for an allele whose two files both existed when
\* the loop reached it while overwrite is false; and a second invocation with
\* the same inputs and overwrite false invokes fit for no allele the completed
\* first invocation fitted.
C3_NoRefit ==
    /\ \A e \in LogSet :
          e.op \in FitOps => ~(e.had.json /\ e.had.hdf /\ ~overwrite)
    /\ (rerun /\ ~overwrite) =>
          \A e \in LogSet : \A f \in {first.log[j] : j \in 1..Len(first.log)} :
              (f.op = "fit" /\ f.key = e.key) => e.op \notin FitOps

C3_Witness ==
    /\ rerun
    /\ ~overwrite
    /\ pc = "done"
    /\ \E e \in LogSet : \E j \in 1..Len(first.log) :
          /\ e.op = "skip_exists"
          /\ first.log[j].op = "fit"
          /\ first.log[j].key = e.key

\* C4: with overwrite set, the old .json and .hdf of an allele are removed
\* before fit is invoked and before to_disk writes: at the fit and at the
\* write neither file exists, every fit of an allele that had a file follows
\* the removal of that file, and after the write no file of the allele is
\* older than this invocation.
C4_RemovedBeforeWritten ==
    overwrite =>
        /\ pc \in {"fit", "to_disk"} =>
              (/\ ~exists(files, allele_name, "json")
               /\ ~exists(files, allele_name, "hdf"))
        /\ \A j \in 1..Len(log) :
              log[j].op \in FitOps =>
                  /\ log[j].had.json =>
                        \E m \in 1..(j - 1) :
                            log[m].op = "remove_json" /\ log[m].i = log[j].i
                  /\ log[j].had.hdf =>
                        \E m \in 1..(j - 1) :
                            log[m].op = "remove_hdf" /\ log[m].i = log[j].i
        /\ \A e \in LogSet : \A ext \in {"json", "hdf"} :
              e.op = "to_disk" =>
                  \/ ~exists(files, normalize_allele_name(e.key), ext)
                  \/ files[normalize_allele_name(e.key)][ext].run = RunNo

C4_Witness ==
    /\ overwrite
    /\ \E e \in LogSet :
          /\ e.op = "to_disk"
          /\ e.had.json
          /\ e.had.hdf
          /\ files[normalize_allele_name(e.key)]["json"].run = RunNo
          /\ files[normalize_allele_name(e.key)]["hdf"].run = RunNo

\* C5: an allele whose normalized name is purely numeric is only ever
\* skipped: nothing but the skip is done for it, the files under its name stay
\* as they were before the first invocation, and the loop goes on to the next
\* allele.
C5_NumericSkipped ==
    /\ \A e \in LogSet :
          IsDigit(normalize_allele_name(e.key)) => e.op = "skip_numeric"
    /\ \A n \in Names : IsDigit(n) => files[n] = files0[n]
    /\ (pc \in {"remove_hdf", "fit", "to_disk"}) => ~IsDigit(allele_name)
    /\ (log # <<>> /\ LastEvent.op = "skip_numeric") =>
          (i = LastEvent.i + 1 /\ pc # "failed")

C5_Witness ==
    /\ overwrite
    /\ \E n \in Names : IsDigit(n) /\ files0[n]["json"] = Stale
    /\ \E j, m \in 1..Len(log) :
          /\ j < m
          /\ log[j].op = "skip_numeric"
          /\ n_samples(log[j].key) >= min_samples_per_allele
          /\ log[m].op = "to_disk"

\* C6: once fit or to_disk has failed the run is over: the failure is the
\* last thing the invocation did, the loop stays at the failed allele, and
\* fit was invoked once for it.
C6_FailureIsFatal ==
    failedAt # 0 =>
        /\ pc = "failed"
        /\ i = failedAt
        /\ LastEvent.op \in {"fit_failed", "to_disk_failed"}
        /\ LastEvent.i = failedAt
        /\ Cardinality({j \in 1..Len(log) :
                           log[j].i = failedAt /\ log[j].op \in FitOps}) = 1

C6_Witness ==
    /\ pc = "failed"
    /\ failedAt < Len(alleles)
    /\ ~IsDigit(normalize_allele_name(alleles[failedAt + 1]))
    /\ normalize_allele_name(alleles[failedAt + 1]) # allele_name
    /\ n_samples(alleles[failedAt + 1]) >= min_samples_per_allele
    /\ overwrite

\* C7 as stated: with overwrite false no file that was in the directory
\* before the run is removed.
C7_AsStated ==
    ~overwrite =>
        \A n \in Names : \A ext \in {"json", "hdf"} :
            files0[n][ext] = Stale => files[n][ext] = Stale

\* C7 amended: a file is removed only if overwrite is set or the allele's
\* other file was missing when the loop reached the allele; with overwrite
\* false an allele whose .json and .hdf both exist keeps both.
C7_RemovesOnlyIncompletePairs ==
    /\ \A e \in LogSet :
          e.op \in RemoveOps => (overwrite \/ ~(e.had.json /\ e.had.hdf))
    /\ ~overwrite =>
          \A n \in Names :
              (files0[n]["json"] = Stale /\ files0[n]["hdf"] = Stale) =>
                  files[n] = files0[n]

C7_Witness ==
    /\ ~overwrite
    /\ \E e \in LogSet : e.op = "remove_json" /\ ~e.had.hdf
    /\ \E e \in LogSet : e.op = "skip_exists" /\ e.had.json /\ e.had.hdf

\* what an invocation did for the list entries of key k, in order
PerKey(l, k) ==
    LET s == SelectSeq(l, LAMBDA e : e.key = k)
    IN  [j \in 1..Len(s) |-> [op |-> s[j].op, pre |-> s[j].pre]]

SameOutcome ==
    /\ \A k \in Keys : PerKey(log, k) = PerKey(first.log, k)
    /\ \A n \in Names : \A ext \in {"json", "hdf"} :
          files[n][ext].data = first.files[n][ext].data

BothCompleted == pc = "done" /\ rerun

C9_PretrainInputs ==
    /\ imputation_method = "None" => imputed_data_dict = {}
    /\ \A e \in LogSet :
          e.op \in FitOps =>
              IF e.key \in imputed_data_dict
              THEN /\ e.pre.X_pretrain = [of |-> e.key, field |-> "X_index"]
                   /\ e.pre.Y_pretrain = [of |-> e.key, field |-> "Y"]
                   /\ e.pre.sample_weights_pretrain =
                          [of |-> e.key, field |-> "weights"]
              ELSE e.pre = NoPretrain

C9_Witness ==
    /\ imputation_method # "None"
    /\ \E e, f \in LogSet :
          /\ e.op = "fit"
          /\ f.op = "fit"
          /\ e.key \in imputed_data_dict
          /\ e.pre # NoPretrain
          /\ f.key \notin imputed_data_dict
          /\ f.pre = NoPretrain

FitFailedWithOldFiles ==
    /\ pc = "failed"
    /\ LastEvent.op = "fit_failed"
    /\ (LastEvent.had.json \/ LastEvent.had.hdf)

\* C10: when fit fails for an allele that had one or both files when the
\* loop reached it, neither file of that allele exists when the run ends, and
\* the files of every other name are as they were when the allele was reached.
C10_FailedFitLeavesNothing ==
    FitFailedWithOldFiles =>
        /\ ~exists(files, allele_name, "json")
        /\ ~exists(files, allele_name, "hdf")
        /\ \A n \in Names : n # allele_name => files[n] = atReach[n]

C10_Witness ==
    /\ FitFailedWithOldFiles
    /\ ~overwrite
    /\ LastEvent.had.json
    /\ i > 1
    /\ \E n \in Names : n # allele_name /\ exists(files, n, "hdf")


====
